---- MODULE Spec2Model ----
(***************************************************************************)
(* The blocks of flows-app-utilities: Mutex (src/unnamed/part_003),        *)
(* Timeout, Merge, Capture and Deduplicate (src/blocks). Each block has    *)
(* its own variables, actions and specification; a block's actions leave   *)
(* the other blocks' variables unchanged.                                  *)
(*                                                                         *)
(* Mutex.                                                                  *)
(* The block keeps all of its state in the block-scoped key-value store:   *)
(* the record under CURRENT_HOLDER_KEY (value = holder id, lock id =       *)
(* release token) and one "evt:<id>" record per waiting acquire request.   *)
(* Handlers (acquire, release, onTimer) and the evaluation (onSync) are    *)
(* separate invocations that may overlap; onSync is modelled one await at  *)
(* a time, the three calls of its Promise.all in any order.                *)
(*                                                                         *)
(* Time is abstracted: an armed timer may fire at any moment after the     *)
(* evaluation that armed it has returned (a timeout is counted in seconds, *)
(* the grant's calls take milliseconds).                                   *)
(***************************************************************************)
EXTENDS Naturals, Integers, Sequences, FiniteSets, TLC

\* Number of acquire events the platform delivers.
MaxReq == 3
\* Number of onSync invocations that may be in flight at once.
MaxEval == 2

\* inputs.default.config.timeout.default
DefaultTimeout == 60

\* Values of event.inputConfig.timeout the platform delivers (the config is
\* typed "number": zero is a number).
TimeoutValues == {0, DefaultTimeout}

\* Event ids handed out by the platform, in arrival order.
Ids == 1..MaxReq
\* The "" of `eventId || ""` and `echo?.body.lockId || ""`.
EmptyToken == 0
Tokens == Ids \cup {EmptyToken}

Evals == 1..MaxEval

\* No record stored under a key (kv get returns value undefined).
NoRecord == [value |-> 0, lock |-> 0]

VARIABLES
  holder,         \* the record under CURRENT_HOLDER_KEY: [value, lock], or NoRecord
  queue,          \* the "evt:" records in creation order: <<[key, value], ...>>
  pending,        \* handles returned by events.createPending and not yet completed
  timers,         \* timers[p]: armed timers with payload p that have not fired
  emitted,        \* emitted[i]: events {lockId: i} emitted on the default output
  evals,          \* the in-flight onSync invocations
  syncRequested,  \* lifecycle.sync() was called and no evaluation has started since
  nextId,         \* the id of the next acquire event
  ended,          \* granted ids whose token has since been released or timed out
  last,           \* the stimulus handled by the last step
  scn,            \* stage of the end-to-end scenario the run has followed (0: left it)
  tracking,       \* whether the run keeps the history variables ended, last, scn
  cleared,        \* cleared[i]: clears of the holder the store accepted for token i
  tallying,       \* whether the run keeps the history variable cleared
  failed          \* ids of the requests whose grant lost a call to a failure

\* The state of the Mutex block.
mutexVars == <<holder, queue, pending, timers, emitted, evals, syncRequested,
               nextId, ended, last, scn, tracking, cleared, tallying,
               failed>>

\* The Timeout block (src/blocks/timeout.ts).
VARIABLES
  tStore,         \* tStore[u]: the record under key u: [pendingEventId, timerId]
  tTimer,         \* tTimer[u]: "none", "armed", "fired" or "unset"
  tPending,       \* tPending[u]: "none", "pending", "completed" or "cancelled"
  tOut,           \* tOut[u]: events {timerId: u} emitted on the default output
  tTimeouts,      \* tTimeouts[u]: events emitted on the timeouts output for u
  tNext,          \* the next value of crypto.randomUUID()
  tCan,           \* tCan[u]: the in-flight cancel handler for u
  tFire,          \* tFire[u]: the in-flight onTimer handler for u
  tCancels,       \* tCancels[u]: cancel events handled for u
  tCancelled,     \* uuids whose cancel handler has returned without an error
  tLast           \* the last handler step: [op, id, err]

timeoutVars == <<tStore, tTimer, tPending, tOut, tTimeouts, tNext, tCan, tFire,
                 tCancels, tCancelled, tLast>>

\* The Merge block (src/blocks/merge.ts).
VARIABLES
  mStore,         \* the stored pairs [key, value |-> [eventId]]
  mTimer,         \* mTimer[p]: the timer of primary p: [state, delay, kvKey]
  mDefault,       \* mDefault[p]: emissions on default with parentEventId p
  mUnmatched,     \* mUnmatched[s]: emissions on unmatched by secondary s
  mSec,           \* mSec[s]: the handler invocation of secondary event s
  mTmr,           \* mTmr[p]: what the onTimer invocation of p has still to do
  mKey,           \* mKey[e]: the matchingKey event e carried
  mNextP,         \* the id of the next primary event
  mNextS          \* the id of the next secondary event

mergeVars == <<mStore, mTimer, mDefault, mUnmatched, mSec, mTmr, mKey, mNextP,
               mNextS>>

\* The Capture block (src/blocks/capture.ts).
VARIABLES
  cStore,         \* the keys value, expiresAt and eventId of the store
  cSignal,        \* the signals exported by the last onSync
  cNow,           \* Date.now(), in milliseconds
  cTimer,         \* cTimer[e]: the timer set for capture event e: [state, due]
  cCap,           \* cCap[e]: the handler invocation of capture event e
  cTmr,           \* cTmr[e]: the position of the onTimer invocation of e
  cSync,          \* the position of the onSync invocation in flight
  cSyncRequested, \* a sync has been requested and not yet started
  cNext           \* the id of the next capture event

captureVars == <<cStore, cSignal, cNow, cTimer, cCap, cTmr, cSync,
                 cSyncRequested, cNext>>

\* The Deduplicate block (src/blocks/deduplicate.ts).
VARIABLES
  dStore,         \* dStore[k]: the time at which key k expires (0: never set)
  dNow,           \* the time, in seconds
  dInv,           \* dInv[e]: the handler invocation of event e
  dOut,           \* dOut[e]: the unique flags emitted for event e
  dLastUnique,    \* dLastUnique[k]: <<time, maxAgeSeconds>> of the last event
                  \* of key k found unique; << >> if there is none
  dNext           \* the id of the next event

dedupVars == <<dStore, dNow, dInv, dOut, dLastUnique, dNext>>

\* The Stage block (src/blocks/stage.ts).
VARIABLES
  sPersist,       \* the value under PERSIST_KEY: "undefined", "true", "false"
  sConfig,        \* config.currentValue
  sSignals,       \* the signals of the block: [persistedValue, changesPending]
  sEval,          \* the onSync invocation in flight
  sCommit,        \* what the commit handler in flight has still to do
  sSyncRequested, \* an evaluation has been requested and not yet started
  sCommitted      \* a commit event has arrived since the last evaluation
                  \* started

stageVars == <<sPersist, sConfig, sSignals, sEval, sCommit, sSyncRequested,
               sCommitted>>

vars == <<mutexVars, timeoutVars, mergeVars, captureVars, dedupVars,
          stageVars>>

----------------------------------------------------------------------------
\* Keys of the wait queue: `evt:${event.id}`.
EvtKey(id) == <<"evt", id>>

\* key.split(":")[1]
EventIdOfKey(key) == key[2]

QueueIds == {EventIdOfKey(queue[i].key) : i \in 1..Len(queue)}

\* kv.block.get(key).value for the holder key; 0 is a falsy value.
KvGetHolder == holder.value

\* kv set with lock {id}: the compare-and-swap write of the store. A record
\* that carries another token refuses the write; a clear (value null, ttl 0)
\* succeeds only on a record carrying the token; a value may be written to
\* an absent record, which then carries the token.
CasAllowed(rec, value, lockId) ==
  IF value = 0
    THEN rec # NoRecord /\ rec.lock = lockId
    ELSE rec = NoRecord \/ rec.lock = lockId

\* The stored record after a permitted write.
CasWrite(value, lockId) ==
  IF value = 0 THEN NoRecord ELSE [value |-> value, lock |-> lockId]

\* A clear that presents no token: a plain delete of the holder record.
clearLockUnlocked(eventId) == holder # NoRecord

\* clearLock(eventId): returns whether the store accepted the clear.
clearLock(eventId) == CasAllowed(holder, 0, eventId)

\* The queue entry is written back without ttl 0: nothing is deleted.
DeleteEvtKept(q, id) == q

\* kv set of `evt:<id>` with ttl 0: delete (deleting an absent key is a no-op).
DeleteEvt(q, id) == SelectSeq(q, LAMBDA p : p.key # EvtKey(id))

\* kv.block.list({keyPrefix: "evt:"}): pairs sorted by creation time.
ListEvt == queue

\* The last pair of the listing instead of the first.
Youngest(pairs) == pairs[Len(pairs)]

\* const [{key, value: {timeout, pendingId}}] = pairs
Eldest(pairs) == pairs[1]

Effects == {"timer", "store", "emit"}

Idle == [pc |-> "idle", pick |-> 0, timeout |-> 0, pendingId |-> 0, todo |-> {}]

\* Timers with payload p armed by an evaluation that has not returned yet.
Arming(p) ==
  {e \in Evals : evals[e].pc = "grant" /\ evals[e].pick = p
                 /\ "timer" \notin evals[e].todo}

----------------------------------------------------------------------------
\* The end-to-end scenario of the specification, followed step by step:
\* 1 Acquire(A) 2 evaluation 3 Acquire(B) 4 Acquire(C) 5 Release(A)
\* 6 evaluation 7 timer(A) 8 timer(B) 9 evaluation 10.
ScnNext(s, op, arg, granted, overlap) ==
  CASE s = 0 -> 0
    [] op = "acquire" ->
         IF s \in {1, 3, 4} /\ arg = DefaultTimeout THEN s + 1 ELSE 0
    [] op = "release" -> IF s = 5 /\ arg = 1 THEN 6 ELSE 0
    [] op = "timer" ->
         IF s = 7 /\ arg = 1 THEN 8 ELSE IF s = 8 /\ arg = 2 THEN 9 ELSE 0
    [] op = "sync" ->
         IF overlap THEN 0
         ELSE IF granted THEN (IF s \in {2, 6, 9} THEN s + 1 ELSE 0)
         ELSE s
    [] OTHER -> 0

\* History of the run: it records what happened and decides nothing.
Observe(op, arg, ok, granted) ==
  /\ last' = IF tracking THEN [op |-> op, arg |-> arg, ok |-> ok] ELSE last
  /\ scn' = IF tracking
              THEN ScnNext(scn, op, arg, granted,
                           Cardinality({e \in Evals : evals'[e].pc # "idle"}) > 1)
              ELSE scn
  /\ tracking' = tracking
  /\ cleared' = IF tallying /\ ok /\ op \in {"release", "timer"}
                  THEN [cleared EXCEPT ![arg] = @ + 1] ELSE cleared
  /\ tallying' = tallying
  /\ failed' = IF op = "fail" THEN failed \cup {arg} ELSE failed
  /\ UNCHANGED <<timeoutVars, mergeVars, captureVars, dedupVars, stageVars>>

\* The grant of token has ended: its token was released or its timer fired.
Ended(token) ==
  ended' = IF tracking /\ token \in Ids /\ emitted[token] > 0
             THEN ended \cup {token} ELSE ended

----------------------------------------------------------------------------
\* Number of start events the platform delivers to the Timeout block.
MaxTimers == 2
\* Number of cancel events delivered for one timer id.
MaxCancels == 2

\* Values of crypto.randomUUID() in the order they are drawn.
Uuids == 1..MaxTimers
\* A timer id no start event ever returned.
UnknownUuid == 0
CancelIds == Uuids \cup {UnknownUuid}

\* kv.block.get(uuid) of an absent key: value undefined.
NoTimerRecord == [pendingEventId |-> 0, timerId |-> 0]

NotRunning == [pc |-> "idle", todo |-> {}]

TimeoutFresh ==
  /\ tStore = [u \in CancelIds |-> NoTimerRecord]
  /\ tTimer = [u \in Uuids |-> "none"]
  /\ tPending = [u \in Uuids |-> "none"]
  /\ tOut = [u \in Uuids |-> 0]
  /\ tTimeouts = [u \in Uuids |-> 0]
  /\ tNext = 1
  /\ tCan = [u \in CancelIds |-> NotRunning]
  /\ tFire = [u \in Uuids |-> NotRunning]
  /\ tCancels = [u \in CancelIds |-> 0]
  /\ tCancelled = {}
  /\ tLast = [op |-> "init", id |-> 0, err |-> FALSE]

----------------------------------------------------------------------------
\* Number of primary and of secondary events delivered to the Merge block.
MaxPrimary == 2
MaxSecondary == 2

PrimaryIds == 1..MaxPrimary
SecondaryIds == (MaxPrimary + 1)..(MaxPrimary + MaxSecondary)
MergeIds == PrimaryIds \cup SecondaryIds

\* Matching keys, as the sequences of their characters: "", "a" and "a:b".
MatchingKeys == {<< >>, <<"a">>, <<"a", ":", "b">>}

\* config.defaultMergeTimeout, and the values of inputConfig.mergeTimeout
\* (0 stands for an absent one).
DefaultMergeTimeout == 300
MergeTimeouts == {0, 5}

NoTimer == [state |-> "none", delay |-> 0, kvKey |-> << >>]
NoSecondary ==
  [pc |-> "idle", id |-> 0, found |-> {}, emits |-> {}, delete |-> FALSE]
NoTimerRun == [emit |-> FALSE, delete |-> FALSE]

MergeFresh ==
  /\ mStore = {}
  /\ mTimer = [p \in PrimaryIds |-> NoTimer]
  /\ mDefault = [p \in PrimaryIds |-> << >>]
  /\ mUnmatched = [s \in SecondaryIds |-> 0]
  /\ mSec = [s \in SecondaryIds |-> NoSecondary]
  /\ mTmr = [p \in PrimaryIds |-> NoTimerRun]
  /\ mKey = [e \in MergeIds |-> << >>]
  /\ mNextP = 1
  /\ mNextS = MaxPrimary + 1

----------------------------------------------------------------------------
\* Number of capture events delivered to the Capture block.
MaxCapture == 2
\* The clock stops after this many seconds.
MaxClock == 3

CaptureIds == 1..MaxCapture

\* null and undefined.
Null == "null"
\* config.defaultValue, and the values of inputConfig.value.
DefaultValue == "default"
CaptureValues == {"x"}
\* The values of inputConfig.timeoutSeconds (0 stands for an absent one).
TimeoutSeconds == {0, 1}

\* A store none of whose keys is set; expiresAt 0 stands for null.
EmptyStore == [value |-> Null, expiresAt |-> 0, eventId |-> Null]
NoSignal == [value |-> Null, updatedAt |-> 0, expiresAt |-> 0,
             updatedBy |-> Null]
NoCapture == [pc |-> "idle", value |-> Null, expiresAt |-> 0]
NoCaptureTimer == [state |-> "none", due |-> 0]
NoSync == [pc |-> "idle", now |-> 0]

CaptureFresh ==
  /\ cStore = EmptyStore
  /\ cSignal = NoSignal
  /\ cNow = 0
  /\ cTimer = [e \in CaptureIds |-> NoCaptureTimer]
  /\ cCap = [e \in CaptureIds |-> NoCapture]
  /\ cTmr = [e \in CaptureIds |-> "idle"]
  /\ cSync = NoSync
  /\ cSyncRequested = TRUE
  /\ cNext = 1

----------------------------------------------------------------------------
\* Number of events delivered to the Deduplicate block.
MaxEvents == 3
\* The time stops after this many seconds.
MaxDedupClock == 4

DedupIds == 1..MaxEvents
DedupKeys == {"a", "b"}
\* The values of inputConfig.maxAgeSeconds; 0 is refused.
MaxAges == {0, 1, 3}
LongestAge == CHOOSE m \in MaxAges : \A n \in MaxAges : n <= m

NoDedup == [pc |-> "idle", key |-> "", unique |-> FALSE, newTTL |-> 0,
            emit |-> FALSE, set |-> FALSE]

DedupFresh ==
  /\ dStore = [k \in DedupKeys |-> 0]
  /\ dNow = 0
  /\ dInv = [e \in DedupIds |-> NoDedup]
  /\ dOut = [e \in DedupIds |-> << >>]
  /\ dLastUnique = [k \in DedupKeys |-> << >>]
  /\ dNext = 1

----------------------------------------------------------------------------
\* JavaScript values: a tag and the characters of the value's text.
Undefined == [t |-> "undefined", v |-> << >>]
JsNumber(digits) == [t |-> "number", v |-> digits]
JsString(chars) == [t |-> "string", v |-> chars]
JsBoolean(b) == [t |-> "boolean", v |-> IF b THEN <<"true">> ELSE <<"false">>]

\* The values config.currentValue takes: 5, "5" and "a".
ConfigValues == {JsNumber(<<"5">>), JsString(<<"5">>), JsString(<<"a">>)}

NoEval == [pc |-> "idle", configValue |-> Undefined, committed |-> FALSE]

StageFresh ==
  /\ sPersist = "undefined"
  /\ sConfig = JsString(<<"a">>)
  /\ sSignals = [persistedValue |-> Undefined, changesPending |-> Undefined]
  /\ sEval = NoEval
  /\ sCommit = {}
  /\ sSyncRequested = TRUE
  /\ sCommitted = FALSE

----------------------------------------------------------------------------
Fresh ==
  /\ TimeoutFresh
  /\ MergeFresh
  /\ CaptureFresh
  /\ DedupFresh
  /\ StageFresh
  /\ holder = NoRecord
  /\ queue = <<>>
  /\ pending = {}
  /\ timers = [p \in Tokens |-> 0]
  /\ emitted = [i \in Ids |-> 0]
  /\ evals = [e \in Evals |-> Idle]
  /\ syncRequested = FALSE
  /\ nextId = 1
  /\ ended = {}
  /\ last = [op |-> "init", arg |-> 0, ok |-> FALSE]
  /\ scn = 1
  /\ cleared = [i \in Ids |-> 0]
  /\ failed = {}

Init == Fresh /\ tracking = TRUE /\ tallying = FALSE

\* The same block, run without its history.
InitLean == Fresh /\ tracking = FALSE /\ tallying = FALSE

\* The same block, run with the tally of the accepted clears only.
InitTally == Fresh /\ tracking = FALSE /\ tallying = TRUE

\* An acquire handler that writes the entry and does not call lifecycle.sync().
AcquireNoSync(timeout) ==
  /\ nextId <= MaxReq
  /\ pending' = pending \cup {nextId}
  /\ queue' = Append(queue,
                [key |-> EvtKey(nextId),
                 value |-> [pendingId |-> nextId, timeout |-> timeout]])
  /\ nextId' = nextId + 1
  /\ UNCHANGED <<holder, timers, emitted, evals, ended, syncRequested>>
  /\ Observe("acquire", timeout, TRUE, FALSE)

\* inputs.default.onEvent: createPending, kv set of the queue entry,
\* lifecycle.sync().
Acquire(timeout) ==
  /\ nextId <= MaxReq
  /\ LET id == nextId
         pendingId == nextId
     IN /\ pending' = pending \cup {pendingId}
        /\ queue' = Append(queue,
                      [key |-> EvtKey(id),
                       value |-> [pendingId |-> pendingId, timeout |-> timeout]])
  /\ syncRequested' = TRUE
  /\ nextId' = nextId + 1
  /\ UNCHANGED <<holder, timers, emitted, evals, ended>>
  /\ Observe("acquire", timeout, TRUE, FALSE)

\* A clear by a plain read-then-delete, with no token check.
ClearAndSyncPlain(token) ==
  /\ holder' = NoRecord
  /\ syncRequested' = TRUE

\* The token-conditioned clear, with lifecycle.sync() called whatever the
\* store answered.
ClearAndSyncAlways(token) ==
  /\ holder' = IF clearLock(token) THEN CasWrite(0, token) ELSE holder
  /\ syncRequested' = TRUE

\* The token-conditioned clear shared by release and onTimer, followed by
\* lifecycle.sync() when the store accepted it.
ClearAndSync(token) ==
  /\ holder' = IF clearLock(token) THEN CasWrite(0, token) ELSE holder
  /\ syncRequested' = (syncRequested \/ clearLock(token))

\* inputs.release.onEvent
Release(token) ==
  /\ token < nextId
  /\ ClearAndSync(token)
  /\ Ended(token)
  /\ UNCHANGED <<queue, pending, timers, emitted, evals, nextId>>
  /\ Observe("release", token, clearLock(token), FALSE)

\* An onTimer that clears the holder without presenting its payload.
OnTimerUnconditional(payload) ==
  /\ timers[payload] > Cardinality(Arming(payload))
  /\ timers' = [timers EXCEPT ![payload] = @ - 1]
  /\ holder' = NoRecord
  /\ syncRequested' = TRUE
  /\ Ended(payload)
  /\ UNCHANGED <<queue, pending, emitted, evals, nextId>>
  /\ Observe("timer", payload, TRUE, FALSE)

\* A timer fires and onTimer handles it.
OnTimer(payload) ==
  /\ timers[payload] > Cardinality(Arming(payload))
  /\ timers' = [timers EXCEPT ![payload] = @ - 1]
  /\ ClearAndSync(payload)
  /\ Ended(payload)
  /\ UNCHANGED <<queue, pending, emitted, evals, nextId>>
  /\ Observe("timer", payload, clearLock(payload), FALSE)

\* An onSync that goes on to the listing whatever holder it read.
SyncGetUnchecked(e) ==
  /\ evals[e].pc = "idle"
  /\ \A f \in Evals : f < e => evals[f].pc # "idle"
  /\ evals' = [evals EXCEPT ![e] = [Idle EXCEPT !.pc = "got"]]
  /\ syncRequested' = FALSE
  /\ Observe("sync", KvGetHolder, FALSE, FALSE)
  /\ UNCHANGED <<holder, queue, pending, timers, emitted, nextId, ended>>

\* onSync, first await: read the holder; return "Held" when there is one.
\* The history records the holder that was read.
SyncGet(e) ==
  /\ evals[e].pc = "idle"
  /\ \A f \in Evals : f < e => evals[f].pc # "idle"
  /\ evals' = [evals EXCEPT ![e] =
                 IF KvGetHolder # 0 THEN Idle ELSE [Idle EXCEPT !.pc = "got"]]
  /\ syncRequested' = FALSE
  /\ Observe("sync", KvGetHolder, FALSE, FALSE)
  /\ UNCHANGED <<holder, queue, pending, timers, emitted, nextId, ended>>

\* onSync, second await: list the queue; return "Available" when it is empty,
\* else take the eldest entry and start the three calls of Promise.all.
SyncList(e) ==
  /\ evals[e].pc = "got"
  /\ LET pairs == ListEvt
     IN evals' = [evals EXCEPT ![e] =
          IF Len(pairs) = 0 THEN Idle
          ELSE [pc |-> "grant",
                pick |-> EventIdOfKey(Eldest(pairs).key),
                timeout |-> Eldest(pairs).value.timeout,
                pendingId |-> Eldest(pairs).value.pendingId,
                todo |-> Effects]]
  /\ Observe("sync", 0, FALSE, FALSE)
  /\ UNCHANGED <<holder, queue, pending, timers, emitted, syncRequested,
                 nextId, ended>>

\* One call of the Promise.all has taken effect; onSync returns "Held" after
\* the last.
Done(e, effect) ==
  LET left == evals[e].todo \ {effect}
  IN /\ evals' = [evals EXCEPT ![e] =
                    IF left = {} THEN Idle ELSE [@ EXCEPT !.todo = left]]
     /\ Observe("sync", 0, FALSE, left = {})

\* The Promise.all without its timers.set call.
SyncTimerNotArmed(e) ==
  /\ evals[e].pc = "grant" /\ "timer" \in evals[e].todo
  /\ Done(e, "timer")
  /\ UNCHANGED <<holder, queue, pending, timers, emitted, syncRequested,
                 nextId, ended>>

\* timers.set(timeout, {inputPayload: eventId})
SyncTimer(e) ==
  /\ evals[e].pc = "grant" /\ "timer" \in evals[e].todo
  /\ timers' = [timers EXCEPT ![evals[e].pick] = @ + 1]
  /\ Done(e, "timer")
  /\ UNCHANGED <<holder, queue, pending, emitted, syncRequested, nextId, ended>>

\* A setMany whose holder write carries no lock and is never refused.
SyncStoreUnlocked(e) ==
  /\ evals[e].pc = "grant" /\ "store" \in evals[e].todo
  /\ holder' = CasWrite(evals[e].pick, evals[e].pick)
  /\ queue' = DeleteEvt(queue, evals[e].pick)
  /\ Done(e, "store")
  /\ UNCHANGED <<pending, timers, emitted, syncRequested, nextId, ended>>

\* kv.block.setMany([holder with lock, delete of the queue entry]). When the
\* store refuses the holder write, the delete of the same batch is applied
\* or not (the batch is no transaction).
SyncStore(e) ==
  /\ evals[e].pc = "grant" /\ "store" \in evals[e].todo
  /\ LET eventId == evals[e].pick
     IN IF CasAllowed(holder, eventId, eventId)
          THEN /\ holder' = CasWrite(eventId, eventId)
               /\ queue' = DeleteEvt(queue, eventId)
          ELSE /\ holder' = holder
               /\ \E applied \in BOOLEAN :
                    queue' = IF applied THEN DeleteEvt(queue, eventId) ELSE queue
  /\ Done(e, "store")
  /\ UNCHANGED <<pending, timers, emitted, syncRequested, nextId, ended>>

\* An emit that resolves the result of every waiter of the listing as well.
SyncEmitAll(e) ==
  /\ evals[e].pc = "grant" /\ "emit" \in evals[e].todo
  /\ emitted' = [i \in Ids |->
                   IF i = evals[e].pick \/ i \in QueueIds
                     THEN emitted[i] + 1 ELSE emitted[i]]
  /\ pending' = pending \ {evals[e].pendingId}
  /\ Done(e, "emit")
  /\ UNCHANGED <<holder, queue, timers, syncRequested, nextId, ended>>

\* events.emit({lockId: eventId}, {complete: pendingId, echo, parentEventId})
SyncEmit(e) ==
  /\ evals[e].pc = "grant" /\ "emit" \in evals[e].todo
  /\ emitted' = [emitted EXCEPT ![evals[e].pick] = @ + 1]
  /\ pending' = pending \ {evals[e].pendingId}
  /\ Done(e, "emit")
  /\ UNCHANGED <<holder, queue, timers, syncRequested, nextId, ended>>

Next ==
  \/ \E timeout \in TimeoutValues : Acquire(timeout)
  \/ \E token \in Tokens : Release(token)
  \/ \E payload \in Tokens : OnTimer(payload)
  \/ \E e \in Evals : SyncGet(e)
  \/ \E e \in Evals : SyncList(e)
  \/ \E e \in Evals : SyncTimer(e)
  \/ \E e \in Evals : SyncStore(e)
  \/ \E e \in Evals : SyncEmit(e)

Spec == Init /\ [][Next]_vars

\* Every armed timer eventually fires, every requested re-sync eventually
\* runs and every started evaluation runs to its return.
Fairness ==
  /\ \A payload \in Tokens : WF_vars(OnTimer(payload))
  /\ WF_vars(syncRequested /\ \E e \in Evals : SyncGet(e))
  /\ \A e \in Evals : /\ WF_vars(SyncList(e))
                       /\ WF_vars(SyncTimer(e))
                       /\ WF_vars(SyncStore(e))
                       /\ WF_vars(SyncEmit(e))

FairSpec == InitLean /\ [][Next]_vars /\ Fairness

TallySpec == InitTally /\ [][Next]_vars

\* Number of requests whose grant loses a call in one run.
MaxFail == 1

\* One call of the Promise.all rejects: it has no effect, the Promise.all
\* rejects and onSync throws, while the calls already started still land.
\* The platform runs a failed onSync again.
CallFails(e, call) ==
  /\ evals[e].pc = "grant" /\ call \in evals[e].todo
  /\ evals[e].pick \notin failed /\ Cardinality(failed) < MaxFail
  /\ LET left == evals[e].todo \ {call}
     IN evals' = [evals EXCEPT ![e] =
                    IF left = {} THEN Idle ELSE [@ EXCEPT !.todo = left]]
  /\ syncRequested' = TRUE
  /\ Observe("fail", evals[e].pick, FALSE, FALSE)
  /\ UNCHANGED <<holder, queue, pending, timers, emitted, nextId, ended>>

\* The block with collaborators that can fail.
FailNext ==
  \/ Next
  \/ \E e \in Evals, call \in Effects : CallFails(e, call)

FailFairSpec == InitLean /\ [][FailNext]_vars /\ Fairness

----------------------------------------------------------------------------
\* What a step that handled a stimulus must leave alone when the store
\* refused its clear.
Stale(token) == holder = NoRecord \/ holder.lock # token

AllIdle == \A e \in Evals : evals[e].pc = "idle"

\* C2: a grant event is never emitted for a request while a different
\* request's grant is still outstanding (its token neither released nor
\* timed out), also when evaluations overlap.
NoDoubleGrant ==
  \A a, b \in Ids :
    (a # b /\ emitted[a] > 0 /\ emitted[b] > 0) => (a \in ended \/ b \in ended)

StaleTimerIgnored ==
  [][(last'.op = "timer" /\ Stale(last'.arg)) =>
       /\ holder' = holder
       /\ queue' = queue
       /\ pending' = pending
       /\ emitted' = emitted
       /\ syncRequested' = syncRequested
       /\ timers' = [timers EXCEPT ![last'.arg] = @ - 1]]_vars

\* C4 witness: the timer of request 1 has just fired while request 2 holds
\* the lock, and request 2 still holds it.
StaleTimerFired ==
  /\ last.op = "timer" /\ last.arg = 1 /\ ~last.ok
  /\ holder.value = 2 /\ 3 \in QueueIds

\* C5: a release that presents a token the holder does not carry, that finds
\* no holder, or that repeats the release just handled, leaves the holder,
\* the wait queue and the granted requests as they were.
ReleaseIdempotent ==
  [][(/\ last'.op = "release"
      /\ \/ Stale(last'.arg)
         \/ (last.op = "release" /\ last.arg = last'.arg)) =>
       /\ holder' = holder
       /\ queue' = queue
       /\ emitted' = emitted
       /\ pending' = pending
       /\ timers' = timers]_vars

\* C5 witness: token 1 was released a second time, after its first release
\* freed the lock, while request 2 is waiting.
ReleasedTwice ==
  /\ last.op = "release" /\ last.arg = 1 /\ ~last.ok
  /\ emitted[1] = 1 /\ timers[1] = 1 /\ AllIdle /\ 1 \notin QueueIds
  /\ holder = NoRecord /\ 2 \in QueueIds

\* C6: FIFO: a step that grants request r (emits its grant or stores it as
\* holder) happens only when no earlier-arrived request is still queued.
FifoGrant ==
  [][\A r \in Ids :
       (emitted'[r] > emitted[r] \/ (holder'.value = r /\ holder.value # r)) =>
         \A q \in QueueIds : r <= q]_vars

\* C6 witness: W1 was granted and released, then W2 was granted and holds the
\* lock while W3 is still queued.
SecondWaiterGranted ==
  /\ emitted[1] = 1 /\ 1 \in ended
  /\ holder.value = 2 /\ emitted[2] = 1
  /\ QueueIds = {3} /\ emitted[3] = 0

\* Exactly the first k requests have been granted, once each.
GrantedUpTo(k) == \A i \in Ids : emitted[i] = IF i <= k THEN 1 ELSE 0

\* C7: the end-to-end scenario: each stage of it leaves the state the
\* specification describes.
ScenarioHolds ==
  /\ scn = 3 => /\ holder = [value |-> 1, lock |-> 1]
                /\ GrantedUpTo(1)
                /\ queue = <<>>
  /\ scn = 5 => /\ holder.value = 1
                /\ QueueIds = {2, 3}
                /\ GrantedUpTo(1)
  /\ (scn = 6 /\ last.op = "release") =>
       holder = NoRecord /\ last.ok /\ QueueIds = {2, 3}
  /\ scn = 7 => /\ holder = [value |-> 2, lock |-> 2]
                /\ GrantedUpTo(2)
                /\ QueueIds = {3}
  /\ scn = 8 => /\ holder = [value |-> 2, lock |-> 2]
                /\ GrantedUpTo(2)
                /\ QueueIds = {3}
                /\ last.op = "timer" => ~last.ok
  /\ (scn = 9 /\ last.op = "timer") =>
       holder = NoRecord /\ last.ok /\ QueueIds = {3}
  /\ scn = 10 => /\ holder = [value |-> 3, lock |-> 3]
                 /\ GrantedUpTo(3)
                 /\ queue = <<>>

\* C7 witness: the scenario was followed to its end.
ScenarioCompleted == scn = 10

\* C8: handling an acquire appends exactly one wait-queue entry keyed by the
\* request id, carrying its timeout and a newly created pending handle,
\* requests a re-sync, leaves the holder unchanged and emits no grant.
AcquireOnlyQueues ==
  [][last'.op = "acquire" =>
       /\ Len(queue') = Len(queue) + 1
       /\ SubSeq(queue', 1, Len(queue)) = queue
       /\ LET entry == queue'[Len(queue')]
          IN /\ entry.key = EvtKey(nextId)
             /\ nextId \notin QueueIds
             /\ entry.value.timeout = last'.arg
             /\ entry.value.pendingId \notin pending
             /\ pending' = pending \cup {entry.value.pendingId}
       /\ syncRequested'
       /\ holder' = holder
       /\ emitted' = emitted
       /\ timers' = timers]_vars

\* C8 witness: an acquire was handled while another request held the lock.
AcquiredWhileHeld ==
  /\ last.op = "acquire" /\ holder.value = 1 /\ 2 \in QueueIds /\ syncRequested

\* C9: a release presenting the stored release token removes the holder and
\* requests a re-sync; any other release changes nothing and requests no
\* re-sync.
ReleaseOutcome ==
  [][last'.op = "release" =>
       /\ IF Stale(last'.arg)
            THEN holder' = holder /\ syncRequested' = syncRequested
            ELSE holder' = NoRecord /\ syncRequested'
       /\ UNCHANGED <<queue, pending, timers, emitted>>]_vars

\* C9 witness: the holder's own token was released, with no re-sync pending
\* before: the holder is gone and a re-sync is requested.
ReleasedByHolder ==
  /\ last.op = "release" /\ last.arg = 1 /\ last.ok
  /\ holder = NoRecord /\ syncRequested /\ emitted[1] = 1

\* C10: an acquire with a timeout of zero or less is rejected: it writes no
\* wait-queue entry and creates no pending result.
InvalidAcquireRejected ==
  [][(last'.op = "acquire" /\ last'.arg <= 0) =>
       UNCHANGED <<queue, pending>>]_vars

\* C23: an evaluation that finds a holder is a no-op: it leaves the holder,
\* the wait queue, the pending results and the armed timers unchanged, emits
\* nothing and starts no grant, however many waiters are queued.
HeldEvaluationNoOp ==
  [][(last'.op = "sync" /\ last'.arg # 0) =>
       /\ holder' = holder
       /\ queue' = queue
       /\ pending' = pending
       /\ timers' = timers
       /\ emitted' = emitted
       /\ evals' = evals]_vars

\* C23 witness: an evaluation has just found request 1 holding the lock
\* while requests 2 and 3 wait.
EvaluatedWhileHeld ==
  /\ last.op = "sync" /\ last.arg = 1
  /\ holder.value = 1 /\ QueueIds = {2, 3} /\ AllIdle

\* C24: the grant of a request is one unit: a step that performs one of its
\* four effects (the holder stored with its id, its queue entry deleted, a
\* timer armed with its id, its pending result resolved) performs all four,
\* so that no state shows only some of them.
GrantIsOneUnit ==
  [][\A r \in Ids :
       LET stored == holder'.value = r /\ holder.value # r
           deleted == r \in QueueIds /\ r \notin QueueIds'
           armed == timers'[r] > timers[r]
           resolved == emitted'[r] > emitted[r]
       IN (stored \/ deleted \/ armed \/ resolved) =>
            (stored /\ deleted /\ armed /\ resolved)]_vars

\* C25: one evaluation grants at most one waiter: each of its steps performs
\* one call of the grant it has not performed yet, for the one entry it
\* picked; it arms at most one timer, resolves at most one pending result and
\* removes at most that entry, the other waiters staying queued in their
\* order. Its reads change nothing.
OneGrantPerEvaluation ==
  [][\A e \in Evals : evals'[e] # evals[e] =>
       LET r == evals[e].pick
           made == evals[e].todo \ evals'[e].todo
           Others(entry) == EventIdOfKey(entry.key) # r
       IN IF evals[e].pc # "grant"
            THEN UNCHANGED <<holder, queue, timers, emitted>>
            ELSE /\ Cardinality(made) = 1
                 /\ evals'[e] = Idle \/ (evals'[e].pc = "grant" /\ evals'[e].pick = r)
                 /\ timers' = [timers EXCEPT ![r] = IF made = {"timer"} THEN @ + 1 ELSE @]
                 /\ emitted' = [emitted EXCEPT ![r] = IF made = {"emit"} THEN @ + 1 ELSE @]
                 /\ queue' \in {queue, SelectSeq(queue, Others)}
                 /\ holder' \in {holder, [value |-> r, lock |-> r]}
                 /\ made # {"store"} => (queue' = queue /\ holder' = holder)]_vars

\* C25 witness: an evaluation has just completed the grant of request 1 with
\* requests 2 and 3 queued; they are still queued, in that order, with no
\* timer and no result.
GrantedOneOfThree ==
  /\ last = [op |-> "sync", arg |-> 0, ok |-> FALSE] /\ AllIdle
  /\ holder.value = 1
  /\ Len(queue) = 2
  /\ EventIdOfKey(queue[1].key) = 2 /\ EventIdOfKey(queue[2].key) = 3
  /\ emitted = [i \in Ids |-> IF i = 1 THEN 1 ELSE 0]
  /\ timers = [p \in Tokens |-> IF p = 1 THEN 1 ELSE 0]

\* C26: a stored holder changes only through the compare-and-swap: it is
\* removed only by a release or a timer that presents its own token, and no
\* step replaces it by a different holder.
HolderChangesByCas ==
  [][(holder # NoRecord /\ holder' # holder) =>
       /\ holder' = NoRecord
       /\ last'.op \in {"release", "timer"}
       /\ last'.arg = holder.lock]_vars

\* C26 witness: two overlapping evaluations have both made their setMany,
\* for requests 1 and 2, with no clear in between; request 1 is the holder,
\* the write of request 2 was refused.
StoreRefused ==
  /\ ~syncRequested /\ holder = [value |-> 1, lock |-> 1]
  /\ \E e, f \in Evals :
       /\ evals[e].pc = "grant" /\ evals[e].pick = 1
       /\ evals[f].pc = "grant" /\ evals[f].pick = 2
       /\ "store" \notin evals[e].todo \cup evals[f].todo

\* C27: a release presenting a token and the timer carrying the same token,
\* handled in any order, clear the holder once between them: the store
\* accepts at most one clear for a token, so that no grant made after the
\* first clear is ended by the second.
ClearedOnce == \A i \in Ids : cleared[i] <= 1

\* C28: a timer firing with a token and a release presenting that token have
\* the same effect: from any state either one leaves no holder when the
\* token is the stored one and the holder as it was otherwise, leaves the
\* wait queue as it was, and requests a re-sync exactly when it cleared.
TimerActsAsRelease ==
  [][last'.op \in {"release", "timer"} =>
       LET accepted == holder # NoRecord /\ holder.lock = last'.arg
       IN /\ holder' = IF accepted THEN NoRecord ELSE holder
          /\ queue' = queue
          /\ syncRequested' = (syncRequested \/ accepted)
          /\ last'.ok = accepted]_vars

\* C28 witness: the timer of holder 1 has fired while request 2 waited and no
\* re-sync was pending: no holder is left, request 2 is still queued and a
\* re-sync is requested.
TimedOutHolder ==
  /\ last = [op |-> "timer", arg |-> 1, ok |-> TRUE]
  /\ holder = NoRecord /\ QueueIds = {2} /\ syncRequested /\ AllIdle

\* C29: whenever no grant is in progress, at most one timer is armed, and an
\* armed timer carries the release token of the stored holder.
OneTimerForHolder ==
  AllIdle =>
    \A p \in Tokens : timers[p] > 0 =>
      /\ timers[p] = 1
      /\ \A q \in Tokens : timers[q] > 0 => q = p
      /\ holder # NoRecord /\ holder.lock = p

\* C30: a release that clears the holder cancels the timer armed for that
\* grant: once the release is handled, no timer carrying the released token
\* is armed, so none fires afterwards.
ReleaseCancelsTimer ==
  (last.op = "release" /\ last.ok /\ AllIdle) => timers[last.arg] = 0

\* The entries of a queue, as a set.
Entries(q) == {q[i] : i \in 1..Len(q)}

\* C31: the wait-queue entry of a request is written by the handling of its
\* acquire; from then on every step either keeps it as it is (same timeout,
\* same pending handle) or removes it while storing the request as holder;
\* the stored holder's id is never in the queue, and once no grant is in
\* progress no entry still queued has been selected and granted.
EntryLifecycle ==
  [][/\ nextId' # nextId => nextId \in QueueIds'
     /\ \A entry \in Entries(queue) :
          \/ entry \in Entries(queue')
          \/ /\ EventIdOfKey(entry.key) \notin QueueIds'
             /\ holder' # holder
             /\ holder'.value = EventIdOfKey(entry.key)
     /\ holder' # NoRecord => holder'.value \notin QueueIds'
     /\ AllIdle' => \A r \in QueueIds' : emitted'[r] = 0]_vars

\* C32: a request whose grant lost one call to a collaborator failure does
\* not stay pending forever: every pending request is eventually resolved,
\* the re-sync after the failure included.
PendingResolved ==
  \A r \in Ids : (r \in failed /\ r \in pending) ~> (r \notin pending)

\* C33: a request is granted at most once: at most one grant event carries
\* its id as lockId and at most one timer carrying its id is armed, whatever
\* the interleaving of evaluations, releases and timer firings.
GrantedAtMostOnce ==
  \A r \in Ids : emitted[r] <= 1 /\ timers[r] <= 1

----------------------------------------------------------------------------
\* The Timeout block: a start handler, a cancel handler and the timer handler.
\* A handler's awaits are separate steps; what it starts together in one
\* Promise.all completes in any order. The timer of a start event fires, and
\* its id reaches a cancel input, only after the start handler has returned.

TimeoutAlone ==
  UNCHANGED <<mutexVars, mergeVars, captureVars, dedupVars, stageVars>>

TimerRecord(u) == [pendingEventId |-> u, timerId |-> u]

TimeoutStep(op, u, err) == tLast' = [op |-> op, id |-> u, err |-> err]

\* start: createPending, timers.set, then the record and the emission.
TimeoutStart ==
  /\ tNext <= MaxTimers
  /\ tPending' = [tPending EXCEPT ![tNext] = "pending"]
  /\ tTimer' = [tTimer EXCEPT ![tNext] = "armed"]
  /\ tStore' = [tStore EXCEPT ![tNext] = TimerRecord(tNext)]
  /\ tOut' = [tOut EXCEPT ![tNext] = @ + 1]
  /\ tNext' = tNext + 1
  /\ TimeoutStep("start", tNext, FALSE)
  /\ UNCHANGED <<tTimeouts, tCan, tFire, tCancels, tCancelled>>
  /\ TimeoutAlone

\* cancel: the read of the record, destructured at once; the destructuring
\* of an absent record throws and ends the handler.
TimeoutCancel(u) ==
  /\ u = UnknownUuid \/ u < tNext
  /\ tCan[u].pc = "idle"
  /\ tCancels[u] < MaxCancels
  /\ tCancels' = [tCancels EXCEPT ![u] = @ + 1]
  /\ IF tStore[u] = NoTimerRecord
       THEN /\ TimeoutStep("cancel", u, TRUE)
            /\ UNCHANGED tCan
       ELSE /\ TimeoutStep("cancel", u, FALSE)
            /\ tCan' = [tCan EXCEPT ![u] =
                 [pc |-> "run", todo |-> {"unset", "cancelPending", "delete"}]]
  /\ UNCHANGED <<tStore, tTimer, tPending, tOut, tTimeouts, tNext, tFire,
                 tCancelled>>
  /\ TimeoutAlone

\* One of the three calls of cancel's Promise.all has completed.
CancelDone(u, effect) ==
  /\ tCan' = [tCan EXCEPT ![u] =
       IF @.todo = {effect} THEN NotRunning
       ELSE [pc |-> "run", todo |-> @.todo \ {effect}]]
  /\ tCancelled' = IF tCan[u].todo = {effect} THEN tCancelled \cup {u}
                   ELSE tCancelled
  /\ TimeoutStep("cancel", u, FALSE)

CancelTimerUnset(u) ==
  /\ "unset" \in tCan[u].todo
  /\ tTimer' = [tTimer EXCEPT ![u] = IF @ = "armed" THEN "unset" ELSE @]
  /\ CancelDone(u, "unset")
  /\ UNCHANGED <<tStore, tPending, tOut, tTimeouts, tNext, tFire, tCancels>>
  /\ TimeoutAlone

CancelPendingSkipped(u) ==
  /\ "cancelPending" \in tCan[u].todo
  /\ CancelDone(u, "cancelPending")
  /\ UNCHANGED <<tStore, tTimer, tPending, tOut, tTimeouts, tNext, tFire,
                 tCancels>>
  /\ TimeoutAlone

\* events.cancelPending: a pending event that is still pending is cancelled;
\* one already completed or cancelled stays as it is.
CancelPendingEvent(u) ==
  /\ "cancelPending" \in tCan[u].todo
  /\ tPending' = [tPending EXCEPT ![u] =
       IF @ = "pending" THEN "cancelled" ELSE @]
  /\ CancelDone(u, "cancelPending")
  /\ UNCHANGED <<tStore, tTimer, tOut, tTimeouts, tNext, tFire, tCancels>>
  /\ TimeoutAlone

CancelDelete(u) ==
  /\ "delete" \in tCan[u].todo
  /\ tStore' = [tStore EXCEPT ![u] = NoTimerRecord]
  /\ CancelDone(u, "delete")
  /\ UNCHANGED <<tTimer, tPending, tOut, tTimeouts, tNext, tFire, tCancels>>
  /\ TimeoutAlone

\* onTimer: the armed timer fires and the handler reads the record,
\* destructured at once.
TimeoutOnTimer(u) ==
  /\ tTimer[u] = "armed"
  /\ tTimer' = [tTimer EXCEPT ![u] = "fired"]
  /\ IF tStore[u] = NoTimerRecord
       THEN /\ TimeoutStep("timer", u, TRUE)
            /\ UNCHANGED tFire
       ELSE /\ TimeoutStep("timer", u, FALSE)
            /\ tFire' = [tFire EXCEPT ![u] =
                 [pc |-> "run", todo |-> {"complete", "delete"}]]
  /\ UNCHANGED <<tStore, tPending, tOut, tTimeouts, tNext, tCan, tCancels,
                 tCancelled>>
  /\ TimeoutAlone

\* One of the two calls of onTimer's Promise.all has completed.
TimerDone(u, effect) ==
  /\ tFire' = [tFire EXCEPT ![u] =
       IF @.todo = {effect} THEN NotRunning
       ELSE [pc |-> "run", todo |-> @.todo \ {effect}]]
  /\ TimeoutStep("timer", u, FALSE)

\* events.completePending: a pending event that is still pending is
\* completed and emitted on the timeouts output; otherwise nothing is emitted.
TimerCompletePending(u) ==
  /\ "complete" \in tFire[u].todo
  /\ IF tPending[u] = "pending"
       THEN /\ tPending' = [tPending EXCEPT ![u] = "completed"]
            /\ tTimeouts' = [tTimeouts EXCEPT ![u] = @ + 1]
       ELSE UNCHANGED <<tPending, tTimeouts>>
  /\ TimerDone(u, "complete")
  /\ UNCHANGED <<tStore, tTimer, tOut, tNext, tCan, tCancels, tCancelled>>
  /\ TimeoutAlone

TimerDeleteKept(u) ==
  /\ "delete" \in tFire[u].todo
  /\ TimerDone(u, "delete")
  /\ UNCHANGED <<tStore, tTimer, tPending, tOut, tTimeouts, tNext, tCan,
                 tCancels, tCancelled>>
  /\ TimeoutAlone

TimerDelete(u) ==
  /\ "delete" \in tFire[u].todo
  /\ tStore' = [tStore EXCEPT ![u] = NoTimerRecord]
  /\ TimerDone(u, "delete")
  /\ UNCHANGED <<tTimer, tPending, tOut, tTimeouts, tNext, tCan, tCancels,
                 tCancelled>>
  /\ TimeoutAlone

TimeoutNext ==
  \/ TimeoutStart
  \/ \E u \in CancelIds : TimeoutCancel(u)
  \/ \E u \in Uuids : CancelTimerUnset(u)
  \/ \E u \in Uuids : CancelPendingEvent(u)
  \/ \E u \in Uuids : CancelDelete(u)
  \/ \E u \in Uuids : TimeoutOnTimer(u)
  \/ \E u \in Uuids : TimerCompletePending(u)
  \/ \E u \in Uuids : TimerDelete(u)

TimeoutSpec == InitLean /\ [][TimeoutNext]_vars

\* An armed timer fires, and a handler that has started runs to its end.
TimeoutFairness ==
  \A u \in Uuids :
    /\ WF_vars(TimeoutOnTimer(u))
    /\ WF_vars(TimerCompletePending(u))
    /\ WF_vars(TimerDelete(u))
    /\ WF_vars(CancelTimerUnset(u))
    /\ WF_vars(CancelPendingEvent(u))
    /\ WF_vars(CancelDelete(u))

TimeoutFairSpec == InitLean /\ [][TimeoutNext]_vars /\ TimeoutFairness

CancelWins ==
  [][/\ \A u \in tCancelled : tTimeouts'[u] = tTimeouts[u]
     /\ (tLast'.op = "cancel" => tOut' = tOut /\ tTimeouts' = tTimeouts)
     /\ \A u \in Uuids : tPending'[u] = "cancelled" => tTimeouts'[u] = 0]_vars

CancelledWhileTimerRuns ==
  /\ 1 \in tCancelled
  /\ tPending[1] = "cancelled"
  /\ tLast = [op |-> "timer", id |-> 1, err |-> FALSE]
  /\ tFire[1] = NotRunning

\* C13: a cancel event for a timer that has already fired, was already
\* cancelled or never existed is handled without an error, emits nothing and
\* leaves the store as it is.
CancelAbsentSafe ==
  [][\A u \in CancelIds :
       (tCancels'[u] = tCancels[u] + 1 /\ tStore[u] = NoTimerRecord)
         => /\ ~tLast'.err
            /\ tOut' = tOut /\ tTimeouts' = tTimeouts
            /\ tStore' = tStore]_vars

----------------------------------------------------------------------------
\* The Merge block: the primary handler, the secondary handler and the
\* timer handler. The secondary handler and the timer handler read the store
\* in one step and act on what they read in later ones.

MergeAlone ==
  UNCHANGED <<mutexVars, timeoutVars, captureVars, dedupVars, stageVars>>

\* mergeTimeout || input.block.config.defaultMergeTimeout || 300
EffectiveTimeout(mergeTimeout, defaultMergeTimeout) ==
  IF mergeTimeout # 0 THEN mergeTimeout
  ELSE IF defaultMergeTimeout # 0 THEN defaultMergeTimeout
  ELSE 300

\* `merge:primary:${matchingKey}:${input.event.id}`
KvKey(matchingKey, eventId) ==
  <<"merge:primary:">> \o matchingKey \o <<":", ToString(eventId)>>

\* `merge:primary:${matchingKey}:`
KeyPrefix(matchingKey) == <<"merge:primary:">> \o matchingKey \o <<":">>

StartsWith(key, prefix) ==
  /\ Len(prefix) <= Len(key)
  /\ SubSeq(key, 1, Len(prefix)) = prefix

\* kv.block.list({ keyPrefix: prefix })
List(prefix) == {pair \in mStore : StartsWith(pair.key, prefix)}

\* kv.block.get(kvKey).value is set
Stored(kvKey) == \E pair \in mStore : pair.key = kvKey

MergeDelete(keys) == {pair \in mStore : pair.key \notin keys}

\* primary: an empty key is refused; otherwise the entry is stored and the
\* timer armed.
MergePrimary(matchingKey, mergeTimeout) ==
  /\ mNextP <= MaxPrimary
  /\ mNextP' = mNextP + 1
  /\ mKey' = [mKey EXCEPT ![mNextP] = matchingKey]
  /\ IF matchingKey = << >>
       THEN UNCHANGED <<mStore, mTimer>>
       ELSE /\ mStore' = mStore \cup
                 {[key |-> KvKey(matchingKey, mNextP),
                   value |-> [eventId |-> mNextP]]}
            /\ mTimer' = [mTimer EXCEPT ![mNextP] =
                 [state |-> "armed",
                  delay |-> EffectiveTimeout(mergeTimeout, DefaultMergeTimeout),
                  kvKey |-> KvKey(matchingKey, mNextP)]]
  /\ UNCHANGED <<mDefault, mUnmatched, mSec, mTmr, mNextS>>
  /\ MergeAlone

\* secondary: an empty key is refused; otherwise the store is listed.
MergeSecondary(matchingKey) ==
  /\ mNextS <= MaxPrimary + MaxSecondary
  /\ mNextS' = mNextS + 1
  /\ mKey' = [mKey EXCEPT ![mNextS] = matchingKey]
  /\ mSec' = [mSec EXCEPT ![mNextS] =
       IF matchingKey = << >>
         THEN [NoSecondary EXCEPT !.pc = "refused", !.id = mNextS]
       ELSE IF List(KeyPrefix(matchingKey)) = {}
         THEN [NoSecondary EXCEPT !.pc = "unmatched", !.id = mNextS]
       ELSE [pc |-> "merge",
             id |-> mNextS,
             found |-> List(KeyPrefix(matchingKey)),
             emits |-> {pair.value.eventId :
                          pair \in List(KeyPrefix(matchingKey))},
             delete |-> TRUE]]
  /\ UNCHANGED <<mStore, mTimer, mDefault, mUnmatched, mTmr, mNextP>>
  /\ MergeAlone

\* secondary, no pair listed: one emission on unmatched.
SecondaryUnmatched(s) ==
  /\ mSec[s].pc = "unmatched"
  /\ mUnmatched' = [mUnmatched EXCEPT ![s] = @ + 1]
  /\ mSec' = [mSec EXCEPT ![s].pc = "done"]
  /\ UNCHANGED <<mStore, mTimer, mDefault, mTmr, mKey, mNextP, mNextS>>
  /\ MergeAlone

SecondaryPc(emits, delete) ==
  IF emits = {} /\ ~delete THEN "done" ELSE "merge"

\* secondary, pairs listed: the emission for one listed primary.
SecondaryEmit(s, p) ==
  /\ mSec[s].pc = "merge"
  /\ p \in mSec[s].emits
  /\ mDefault' = [mDefault EXCEPT ![p] =
       Append(@, [matched |-> TRUE, payload |-> s])]
  /\ mSec' = [mSec EXCEPT ![s].emits = @ \ {p},
                          ![s].pc = SecondaryPc(mSec[s].emits \ {p},
                                                mSec[s].delete)]
  /\ UNCHANGED <<mStore, mTimer, mUnmatched, mTmr, mKey, mNextP, mNextS>>
  /\ MergeAlone

\* secondary, pairs listed: kv.block.delete(keysToDelete).
SecondaryDelete(s) ==
  /\ mSec[s].pc = "merge"
  /\ mSec[s].delete
  /\ mStore' = MergeDelete({pair.key : pair \in mSec[s].found})
  /\ mSec' = [mSec EXCEPT ![s].delete = FALSE,
                          ![s].pc = SecondaryPc(mSec[s].emits, FALSE)]
  /\ UNCHANGED <<mTimer, mDefault, mUnmatched, mTmr, mKey, mNextP, mNextS>>
  /\ MergeAlone

\* onTimer: the timer fires; the handler returns if the entry is gone.
MergeOnTimer(p) ==
  /\ mTimer[p].state = "armed"
  /\ mTimer' = [mTimer EXCEPT ![p].state = "fired"]
  /\ mTmr' = [mTmr EXCEPT ![p] =
       IF Stored(mTimer[p].kvKey) THEN [emit |-> TRUE, delete |-> TRUE]
       ELSE NoTimerRun]
  /\ UNCHANGED <<mStore, mDefault, mUnmatched, mSec, mKey, mNextP, mNextS>>
  /\ MergeAlone

\* onTimer: the emission of { matched: false, payload: null }.
MergeTimerEmit(p) ==
  /\ mTmr[p].emit
  /\ mDefault' = [mDefault EXCEPT ![p] =
       Append(@, [matched |-> FALSE, payload |-> 0])]
  /\ mTmr' = [mTmr EXCEPT ![p].emit = FALSE]
  /\ UNCHANGED <<mStore, mTimer, mUnmatched, mSec, mKey, mNextP, mNextS>>
  /\ MergeAlone

\* onTimer: kv.block.delete([kvKey]).
MergeTimerDelete(p) ==
  /\ mTmr[p].delete
  /\ mStore' = MergeDelete({mTimer[p].kvKey})
  /\ mTmr' = [mTmr EXCEPT ![p].delete = FALSE]
  /\ UNCHANGED <<mTimer, mDefault, mUnmatched, mSec, mKey, mNextP, mNextS>>
  /\ MergeAlone

MergeNext ==
  \/ \E k \in MatchingKeys, t \in MergeTimeouts : MergePrimary(k, t)
  \/ \E k \in MatchingKeys : MergeSecondary(k)
  \/ \E s \in SecondaryIds : SecondaryUnmatched(s)
  \/ \E s \in SecondaryIds, p \in PrimaryIds : SecondaryEmit(s, p)
  \/ \E s \in SecondaryIds : SecondaryDelete(s)
  \/ \E p \in PrimaryIds : MergeOnTimer(p)
  \/ \E p \in PrimaryIds : MergeTimerEmit(p)
  \/ \E p \in PrimaryIds : MergeTimerDelete(p)

MergeSpec == InitLean /\ [][MergeNext]_vars

\* The emissions on default for primary p that carry secondary s's payload.
MatchedBy(emissions, s) ==
  {i \in 1..Len(emissions) : emissions[i].matched /\ emissions[i].payload = s}

\* C14: a primary event with a non-empty key never gets more than one
\* emission on default: matched:true from a secondary or matched:false from
\* its timer, never both, also when the two handlers overlap.
OneMergeResult ==
  \A p \in PrimaryIds : Len(mDefault[p]) <= 1

\* The primaries that wait under secondary s's own key among the pairs its
\* listing returned (every stored pair of that key starts with the prefix).
Waiting(sec, keys) ==
  {pair \in sec.found : keys[pair.value.eventId] = keys[sec.id]}

\* C15: a secondary that has searched the store and for whose key no primary
\* waits emits exactly one event on unmatched, nothing on default, and
\* changes no stored pair; one for whose key primaries wait emits one
\* matched:true event for each of them and for no other primary, has removed
\* them all when it returns, and emits nothing on unmatched.
SecondaryOutcome ==
  [][\A s \in SecondaryIds :
       /\ (mSec'[s] # mSec[s] /\ Waiting(mSec'[s], mKey') = {})
            => mStore' = mStore
       /\ (mSec'[s] # mSec[s] /\ mSec'[s].pc = "done") =>
            IF Waiting(mSec'[s], mKey') = {}
              THEN /\ mUnmatched'[s] = 1
                   /\ \A p \in PrimaryIds : MatchedBy(mDefault'[p], s) = {}
              ELSE /\ mUnmatched'[s] = 0
                   /\ \A pair \in Waiting(mSec'[s], mKey') :
                        /\ pair \notin mStore'
                        /\ Cardinality(MatchedBy(
                             mDefault'[pair.value.eventId], s)) = 1
                   /\ \A p \in PrimaryIds :
                        MatchedBy(mDefault'[p], s) # {} =>
                          p \in {pair.value.eventId :
                                   pair \in Waiting(mSec'[s], mKey')}
    ]_vars

\* C16: a secondary event is merged only with primaries whose matching key
\* is identical to its own, also for keys that contain ':' or are prefixes of
\* one another.
IdenticalKeysOnly ==
  \A p \in PrimaryIds : \A s \in SecondaryIds :
    MatchedBy(mDefault[p], s) # {} => mKey[p] = mKey[s]

----------------------------------------------------------------------------
\* The Capture block: the capture handler, onSync and onTimer. The block is
\* synced when it is created and whenever a handler calls lifecycle.sync().
\* A capture event is dispatched when it arrives; the calls its handler
\* awaits take effect one after another, interleaved with other invocations.

CaptureAlone ==
  UNCHANGED <<mutexVars, timeoutVars, mergeVars, dedupVars, stageVars>>

\* input.event.id
EventId(e) == ToString(e)

\* !value
Falsy(value) == value \in {Null, ""}

\* The reset of the three keys to the default.
ResetStore == [value |-> DefaultValue, expiresAt |-> 0, eventId |-> Null]

createExportUpdates(now, value, expiresAt, eventId) ==
  [value |-> value,
   updatedAt |-> now,
   expiresAt |-> expiresAt,
   updatedBy |-> IF Falsy(eventId) THEN "expiration" ELSE eventId]

\* The clock advances by one second.
Tick ==
  /\ cNow < MaxClock * 1000
  /\ cNow' = cNow + 1000
  /\ UNCHANGED <<cStore, cSignal, cTimer, cCap, cTmr, cSync, cSyncRequested,
                 cNext>>
  /\ CaptureAlone

\* capture: the event arrives; with a timeout, expiresAt is computed and the
\* timer set.
Capture(value, timeoutSeconds) ==
  /\ cNext <= MaxCapture
  /\ cNow + timeoutSeconds * 1000 < MaxClock * 1000
  /\ cNext' = cNext + 1
  /\ IF timeoutSeconds > 0
       THEN /\ cCap' = [cCap EXCEPT ![cNext] =
                 [pc |-> "store", value |-> value,
                  expiresAt |-> cNow + timeoutSeconds * 1000]]
            /\ cTimer' = [cTimer EXCEPT ![cNext] =
                 [state |-> "armed", due |-> cNow + timeoutSeconds * 1000]]
       ELSE /\ cCap' = [cCap EXCEPT ![cNext] =
                 [pc |-> "store", value |-> value, expiresAt |-> 0]]
            /\ UNCHANGED cTimer
  /\ UNCHANGED <<cStore, cSignal, cNow, cTmr, cSync, cSyncRequested>>
  /\ CaptureAlone

\* capture: kv.block.setMany of value, expiresAt and eventId.
CaptureStore(e) ==
  /\ cCap[e].pc = "store"
  /\ cStore' = [value |-> cCap[e].value, expiresAt |-> cCap[e].expiresAt,
                eventId |-> EventId(e)]
  /\ cCap' = [cCap EXCEPT ![e].pc = "sync"]
  /\ UNCHANGED <<cSignal, cNow, cTimer, cTmr, cSync, cSyncRequested, cNext>>
  /\ CaptureAlone

\* capture: lifecycle.sync().
CaptureSync(e) ==
  /\ cCap[e].pc = "sync"
  /\ cCap' = [cCap EXCEPT ![e].pc = "done"]
  /\ cSyncRequested' = TRUE
  /\ UNCHANGED <<cStore, cSignal, cNow, cTimer, cTmr, cSync, cNext>>
  /\ CaptureAlone

\* onSync: Date.now() and kv.block.getMany; unless the value has expired,
\* the signals are returned at once.
CaptureOnSync ==
  /\ cSyncRequested
  /\ cSync = NoSync
  /\ cSyncRequested' = FALSE
  /\ IF cStore.expiresAt # 0 /\ cNow > cStore.expiresAt
       THEN /\ cSync' = [pc |-> "reset", now |-> cNow]
            /\ UNCHANGED cSignal
       ELSE /\ cSignal' =
                 IF Falsy(cStore.value)
                   THEN createExportUpdates(cNow, DefaultValue, 0, Null)
                 ELSE createExportUpdates(cNow, cStore.value,
                                          cStore.expiresAt, cStore.eventId)
            /\ UNCHANGED cSync
  /\ UNCHANGED <<cStore, cNow, cTimer, cCap, cTmr, cNext>>
  /\ CaptureAlone

\* onSync, expired value: the store is reset and the default returned.
CaptureSyncReset ==
  /\ cSync.pc = "reset"
  /\ cStore' = ResetStore
  /\ cSignal' = createExportUpdates(cSync.now, DefaultValue, 0, Null)
  /\ cSync' = NoSync
  /\ UNCHANGED <<cNow, cTimer, cCap, cTmr, cSyncRequested, cNext>>
  /\ CaptureAlone

\* onTimer: the timer is due and fires, after the handler that set it has
\* returned; the handler reads the current event id and goes on only if it
\* is the one of its payload.
CaptureOnTimer(e) ==
  /\ cTimer[e].state = "armed"
  /\ cNow >= cTimer[e].due
  /\ cCap[e].pc = "done"
  /\ cTimer' = [cTimer EXCEPT ![e].state = "fired"]
  /\ cTmr' = [cTmr EXCEPT ![e] =
       IF EventId(e) = cStore.eventId THEN "reset" ELSE "idle"]
  /\ UNCHANGED <<cStore, cSignal, cNow, cCap, cSync, cSyncRequested, cNext>>
  /\ CaptureAlone

\* onTimer: kv.block.setMany of the defaults.
CaptureTimerReset(e) ==
  /\ cTmr[e] = "reset"
  /\ cStore' = ResetStore
  /\ cTmr' = [cTmr EXCEPT ![e] = "sync"]
  /\ UNCHANGED <<cSignal, cNow, cTimer, cCap, cSync, cSyncRequested, cNext>>
  /\ CaptureAlone

\* onTimer: lifecycle.sync().
CaptureTimerSync(e) ==
  /\ cTmr[e] = "sync"
  /\ cTmr' = [cTmr EXCEPT ![e] = "idle"]
  /\ cSyncRequested' = TRUE
  /\ UNCHANGED <<cStore, cSignal, cNow, cTimer, cCap, cSync, cNext>>
  /\ CaptureAlone

CaptureNext ==
  \/ Tick
  \/ \E v \in CaptureValues, t \in TimeoutSeconds : Capture(v, t)
  \/ \E e \in CaptureIds : CaptureStore(e)
  \/ \E e \in CaptureIds : CaptureSync(e)
  \/ CaptureOnSync
  \/ CaptureSyncReset
  \/ \E e \in CaptureIds : CaptureOnTimer(e)
  \/ \E e \in CaptureIds : CaptureTimerReset(e)
  \/ \E e \in CaptureIds : CaptureTimerSync(e)

CaptureSpec == InitLean /\ [][CaptureNext]_vars

\* Time passes, a due timer fires, a requested sync runs, and a handler that
\* has started runs to its end.
CaptureFairness ==
  /\ WF_vars(Tick)
  /\ WF_vars(CaptureOnSync)
  /\ WF_vars(CaptureSyncReset)
  /\ \A e \in CaptureIds :
       /\ WF_vars(CaptureStore(e))
       /\ WF_vars(CaptureSync(e))
       /\ WF_vars(CaptureOnTimer(e))
       /\ WF_vars(CaptureTimerReset(e))
       /\ WF_vars(CaptureTimerSync(e))

CaptureFairSpec == InitLean /\ [][CaptureNext]_vars /\ CaptureFairness

\* Capture event e carried a timeout and no capture event has arrived since.
LastTimed(e) == cNext = e + 1 /\ cTimer[e].state # "none"

\* C17: after a capture event with a timeout that no other capture event
\* follows, the exported value eventually is the default, with expiresAt
\* null, and stays so.
CaptureReverts ==
  \A e \in CaptureIds :
    LastTimed(e) ~> [](LastTimed(e) =>
                         /\ cSignal.value = DefaultValue
                         /\ cSignal.expiresAt = 0)

\* C18: updatedBy is the id of the event that set the exported value, and
\* null whenever the exported value is the default.
UpdatedByNamesSetter ==
  /\ cSignal.value = DefaultValue => cSignal.updatedBy = Null
  /\ cSignal.value \in CaptureValues =>
       \E e \in CaptureIds : /\ cSignal.updatedBy = EventId(e)
                             /\ cCap[e].value = cSignal.value

----------------------------------------------------------------------------
\* The Deduplicate block: one handler, which reads the key and then, in one
\* Promise.all, emits the flag and writes the key with its time to live.

DedupAlone ==
  UNCHANGED <<mutexVars, timeoutVars, mergeVars, captureVars, stageVars>>

\* kv.block.get(deduplicationKey): a key is there until its time to live
\* has passed; ttl is the time it has left.
DedupGet(k) ==
  IF dStore[k] > dNow THEN [value |-> TRUE, ttl |-> dStore[k] - dNow]
  ELSE [value |-> FALSE, ttl |-> 0]

\* ttl && ttl > maxAgeSeconds ? ttl : maxAgeSeconds
NewTTL(ttl, maxAgeSeconds) ==
  IF ttl # 0 /\ ttl > maxAgeSeconds THEN ttl ELSE maxAgeSeconds

DedupTick ==
  /\ dNow < MaxDedupClock
  /\ dNow' = dNow + 1
  /\ UNCHANGED <<dStore, dInv, dOut, dLastUnique, dNext>>
  /\ DedupAlone

\* The event arrives: an invalid maxAgeSeconds ends the handler; otherwise
\* the key is read.
Deduplicate(deduplicationKey, maxAgeSeconds) ==
  /\ dNext <= MaxEvents
  /\ dNext' = dNext + 1
  /\ IF maxAgeSeconds = 0 \/ maxAgeSeconds < 1
       THEN /\ dInv' = [dInv EXCEPT ![dNext] =
                 [NoDedup EXCEPT !.pc = "done", !.key = deduplicationKey]]
            /\ UNCHANGED dLastUnique
       ELSE /\ dInv' = [dInv EXCEPT ![dNext] =
                 [pc |-> "run",
                  key |-> deduplicationKey,
                  unique |-> ~DedupGet(deduplicationKey).value,
                  newTTL |-> NewTTL(DedupGet(deduplicationKey).ttl,
                                    maxAgeSeconds),
                  emit |-> TRUE,
                  set |-> TRUE]]
            /\ dLastUnique' =
                 IF DedupGet(deduplicationKey).value THEN dLastUnique
                 ELSE [dLastUnique EXCEPT
                         ![deduplicationKey] = <<dNow, maxAgeSeconds>>]
  /\ UNCHANGED <<dStore, dNow, dOut>>
  /\ DedupAlone

DedupPc(emit, set) == IF emit \/ set THEN "run" ELSE "done"

\* events.emit({ unique: isUnique })
DedupEmit(e) ==
  /\ dInv[e].emit
  /\ dOut' = [dOut EXCEPT ![e] = Append(@, dInv[e].unique)]
  /\ dInv' = [dInv EXCEPT ![e].emit = FALSE,
                          ![e].pc = DedupPc(FALSE, dInv[e].set)]
  /\ UNCHANGED <<dStore, dNow, dLastUnique, dNext>>
  /\ DedupAlone

\* kv.block.set({ key: deduplicationKey, value: true, ttl: newTTL })
DedupSet(e) ==
  /\ dInv[e].set
  /\ dStore' = [dStore EXCEPT ![dInv[e].key] = dNow + dInv[e].newTTL]
  /\ dInv' = [dInv EXCEPT ![e].set = FALSE,
                          ![e].pc = DedupPc(dInv[e].emit, FALSE)]
  /\ UNCHANGED <<dNow, dOut, dLastUnique, dNext>>
  /\ DedupAlone

DedupNext ==
  \/ DedupTick
  \/ \E k \in DedupKeys, m \in MaxAges : Deduplicate(k, m)
  \/ \E e \in DedupIds : DedupEmit(e)
  \/ \E e \in DedupIds : DedupSet(e)

DedupSpec == InitLean /\ [][DedupNext]_vars

\* C19: the first event of a key is found unique; a later event of the key
\* that arrives inside the window of the last event found unique is not; and
\* one that arrives more than maxAgeSeconds after the last event found unique
\* is found unique again.
UniqueOncePerWindow ==
  [][\A e \in DedupIds :
       (dInv[e].pc = "idle" /\ dInv'[e].pc = "run") =>
         LET seen == dLastUnique[dInv'[e].key]
         IN  /\ seen = << >> => dInv'[e].unique
             /\ (seen # << >> /\ dNow - seen[1] < seen[2])
                  => ~dInv'[e].unique
             /\ (seen # << >> /\ dNow - seen[1] > LongestAge)
                  => dInv'[e].unique]_vars

\* C20: every event received results in exactly one output event, whatever
\* its deduplicationKey and maxAgeSeconds.
EveryEventPasses ==
  \A e \in DedupIds : dInv[e].pc = "done" => Len(dOut[e]) = 1

----------------------------------------------------------------------------
\* The Stage block: the commit handler and onSync. The block is evaluated
\* when it is created, when its config changes and when the commit handler
\* calls lifecycle.sync().

StageAlone ==
  UNCHANGED <<mutexVars, timeoutVars, mergeVars, captureVars, dedupVars>>

\* The characters of a string with every quote escaped.
RECURSIVE Escape(_)
Escape(chars) ==
  IF chars = << >> THEN << >>
  ELSE (IF Head(chars) = "\"" THEN <<"\\", "\"">> ELSE <<Head(chars)>>)
         \o Escape(Tail(chars))

\* JSON.stringify: undefined stays undefined, a string is escaped and quoted,
\* a number or a boolean becomes the string of its text.
JSONstringify(value) ==
  IF value.t = "undefined" THEN Undefined
  ELSE IF value.t = "string"
    THEN JsString(<<"\"">> \o Escape(value.v) \o <<"\"">>)
  ELSE JsString(value.v)

\* The config is changed, which requests an evaluation.
StageConfigure(value) ==
  /\ value # sConfig
  /\ sConfig' = value
  /\ sSyncRequested' = TRUE
  /\ UNCHANGED <<sPersist, sSignals, sEval, sCommit, sCommitted>>
  /\ StageAlone

\* A commit event arrives; its handler starts both calls of its Promise.all.
StageCommit ==
  /\ sCommit = {}
  /\ sCommit' = {"set", "sync"}
  /\ sCommitted' = TRUE
  /\ UNCHANGED <<sPersist, sConfig, sSignals, sEval, sSyncRequested>>
  /\ StageAlone

\* commit: kv.block.set({ key: PERSIST_KEY, value: true })
StageCommitSet ==
  /\ "set" \in sCommit
  /\ sPersist' = "true"
  /\ sCommit' = sCommit \ {"set"}
  /\ UNCHANGED <<sConfig, sSignals, sEval, sSyncRequested, sCommitted>>
  /\ StageAlone

\* commit: lifecycle.sync()
StageCommitSync ==
  /\ "sync" \in sCommit
  /\ sSyncRequested' = TRUE
  /\ sCommit' = sCommit \ {"sync"}
  /\ UNCHANGED <<sPersist, sConfig, sSignals, sEval, sCommitted>>
  /\ StageAlone

\* onSync: the read of PERSIST_KEY; if it is false, only changesPending is
\* returned.
StageOnSync ==
  /\ sSyncRequested
  /\ sEval.pc = "idle"
  /\ sSyncRequested' = FALSE
  /\ sCommitted' = FALSE
  /\ IF sPersist = "false"
       THEN /\ sSignals' = [sSignals EXCEPT !.changesPending =
                 JsBoolean(JSONstringify(sConfig) #
                   JSONstringify(JSONstringify(sSignals.persistedValue)))]
            /\ sEval' = [pc |-> "done", configValue |-> sConfig,
                         committed |-> sCommitted]
       ELSE /\ sEval' = [pc |-> "set", configValue |-> sConfig,
                         committed |-> sCommitted]
            /\ UNCHANGED sSignals
  /\ UNCHANGED <<sPersist, sConfig, sCommit>>
  /\ StageAlone

\* onSync: PERSIST_KEY is set to false and both signals are returned.
StageSyncPersist ==
  /\ sEval.pc = "set"
  /\ sPersist' = "false"
  /\ sSignals' = [persistedValue |-> sEval.configValue,
                  changesPending |-> JsBoolean(FALSE)]
  /\ sEval' = [sEval EXCEPT !.pc = "done"]
  /\ UNCHANGED <<sConfig, sCommit, sSyncRequested, sCommitted>>
  /\ StageAlone

\* The evaluation has returned; the next one may start.
StageSyncReturned ==
  /\ sEval.pc = "done"
  /\ sEval' = NoEval
  /\ UNCHANGED <<sPersist, sConfig, sSignals, sCommit, sSyncRequested,
                 sCommitted>>
  /\ StageAlone

StageNext ==
  \/ \E value \in ConfigValues : StageConfigure(value)
  \/ StageCommit
  \/ StageCommitSet
  \/ StageCommitSync
  \/ StageOnSync
  \/ StageSyncPersist
  \/ StageSyncReturned

StageSpec == InitLean /\ [][StageNext]_vars

\* The step in which an evaluation returns its signals.
EvalReturns == sEval.pc # "done" /\ sEval'.pc = "done"

\* C21: an evaluation before which no commit event has arrived since the
\* previous evaluation, the first evaluation of a block included, leaves
\* persistedValue unchanged.
PersistedOnlyOnCommit ==
  [][(EvalReturns /\ ~sEval'.committed)
       => sSignals'.persistedValue = sSignals.persistedValue]_vars

\* C22: after every evaluation changesPending is true exactly when the
\* config value the evaluation saw differs from the persistedValue signal.
PendingIffDiffers ==
  [][EvalReturns
       => sSignals'.changesPending =
            JsBoolean(sEval'.configValue # sSignals'.persistedValue)]_vars

============================================================================
